---- MODULE Spec2Model ----
(***************************************************************************)
(* A model of the text pipeline of clean_bible_downloader.py: the two text *)
(* cleaners, get_chapter_count, download_chapter, download_book, and the   *)
(* GUI worker that drives them and hands the result to save_clean_text.    *)
(*                                                                         *)
(* A Python str is a sequence of one-character strings.  A JSON value that *)
(* is not a string is JsonNull.  A Python dict is a record with a field    *)
(* "keys" holding the keys that are present.                               *)
(***************************************************************************)
EXTENDS Integers, Sequences, FiniteSets, TLC

VARIABLES
    pc,             \* position of the caller / worker
    cleaner,        \* which cleaner the cleaner harness applies
    text,           \* the cleaner harness's input string
    once,           \* cleaner(text)
    twice,          \* cleaner(cleaner(text))
    download_type,  \* "book" or "chapter" (BibleDownloaderGUI.download_type)
    version,        \* "he", "en" or "he-en"
    chapter,        \* the chapter being fetched
    chapter_count,  \* download_book's chapter_count
    all_text,       \* download_book's accumulators
    metadata,       \* the HTTP outcome of the metadata request
    fetched,        \* history: the dict every download_chapter call returned, in order
    response,       \* the HTTP outcome of the chapter request that resolved last
    data,           \* the dict the download returned to the worker
    log,            \* history: mkdir, HTTP requests, sleeps, file writes, in order
    files,          \* the three output files of this call
    preview,        \* what the worker inserted into preview_text
    threads         \* the worker threads start_download has spawned

vars == <<pc, cleaner, text, once, twice, download_type, version, chapter,
          chapter_count, all_text, metadata, fetched, response, data, log, files,
          preview, threads>>

cleanVars == <<cleaner, text, once, twice>>
pipeVars == <<download_type, version, chapter, chapter_count, all_text, metadata,
              fetched, response, data, log, files, preview>>

----------------------------------------------------------------------------
(* Bounds *)

MaxLen == 5         \* longest string the cleaner harness draws
MaxChapters == 3    \* largest chapter count the metadata request reports

----------------------------------------------------------------------------
(* Strings *)

Alphabet == {"<", ">", " ", "\t", "a"}
Strings == UNION {[1..n -> Alphabet] : n \in 0..MaxLen}

\* str.split() and str.strip() without arguments act on whitespace.
IsSpace(c) == c \in {" ", "\t", "\n"}

JsonNull == <<"null">>
IsStr(v) == v # JsonNull

HasGt(s) == \E i \in DOMAIN s : s[i] = ">"

RECURSIVE AfterFirstGt(_)
AfterFirstGt(s) ==
    IF s = <<>> THEN <<>>
    ELSE IF Head(s) = ">" THEN Tail(s)
    ELSE AfterFirstGt(Tail(s))

\* The first angle bracket of s, if any, is a '>'.
RECURSIVE NextBracketIsGt(_)
NextBracketIsGt(s) ==
    IF s = <<>> THEN FALSE
    ELSE IF Head(s) = ">" THEN TRUE
    ELSE IF Head(s) = "<" THEN FALSE
    ELSE NextBracketIsGt(Tail(s))

\* Mutant: the pattern '<[^<>]*>', whose tag body excludes both angle brackets.
RECURSIVE re_sub_tags_no_lt_in_body(_)
re_sub_tags_no_lt_in_body(s) ==
    IF s = <<>> THEN <<>>
    ELSE IF Head(s) = "<" /\ NextBracketIsGt(Tail(s))
         THEN re_sub_tags_no_lt_in_body(AfterFirstGt(Tail(s)))
    ELSE <<Head(s)>> \o re_sub_tags_no_lt_in_body(Tail(s))

\* Mutant: the pattern '<[^>]+>', which leaves an empty tag '<>' in place.
RECURSIVE re_sub_tags_nonempty_body(_)
re_sub_tags_nonempty_body(s) ==
    IF s = <<>> THEN <<>>
    ELSE IF Head(s) = "<" /\ HasGt(Tail(s)) /\ Head(Tail(s)) # ">"
         THEN re_sub_tags_nonempty_body(AfterFirstGt(Tail(s)))
    ELSE <<Head(s)>> \o re_sub_tags_nonempty_body(Tail(s))

\* re.sub(r'<[^>]*>', '', s): leftmost non-overlapping matches; a match starts
\* at a '<' that has a '>' after it and ends at the first such '>'.
RECURSIVE re_sub_tags(_)
re_sub_tags(s) ==
    IF s = <<>> THEN <<>>
    ELSE IF Head(s) = "<" /\ HasGt(Tail(s)) THEN re_sub_tags(AfterFirstGt(Tail(s)))
    ELSE <<Head(s)>> \o re_sub_tags(Tail(s))

RECURSIVE lstrip(_)
lstrip(s) == IF s # <<>> /\ IsSpace(Head(s)) THEN lstrip(Tail(s)) ELSE s

RECURSIVE rstrip(_)
rstrip(s) ==
    IF s # <<>> /\ IsSpace(s[Len(s)]) THEN rstrip(SubSeq(s, 1, Len(s) - 1)) ELSE s

strip(s) == rstrip(lstrip(s))

RECURSIVE word(_)
word(s) ==
    IF s = <<>> \/ IsSpace(Head(s)) THEN <<>> ELSE <<Head(s)>> \o word(Tail(s))

\* str.split(): the maximal runs of non-whitespace, in order.
RECURSIVE split(_)
split(s) ==
    LET t == lstrip(s) IN
    IF t = <<>> THEN <<>>
    ELSE LET w == word(t) IN <<w>> \o split(SubSeq(t, Len(w) + 1, Len(t)))

RECURSIVE join(_, _)
join(sep, ws) ==
    IF ws = <<>> THEN <<>>
    ELSE IF Len(ws) = 1 THEN ws[1]
    ELSE ws[1] \o sep \o join(sep, Tail(ws))

\* Mutant: the whitespace runs are not collapsed, only the ends are trimmed.
clean_hebrew_text_no_collapse(s) == strip(re_sub_tags(s))

clean_hebrew_text(s) == strip(join(<<" ">>, split(re_sub_tags(s))))

clean_english_text(s) == strip(join(<<" ">>, split(re_sub_tags(s))))

Clean(fn, s) == IF fn = "hebrew" THEN clean_hebrew_text(s) ELSE clean_english_text(s)

----------------------------------------------------------------------------
(* The cleaner harness: a caller applies one cleaner to a string, then to  *)
(* its own output.                                                         *)

EmptyText == [hebrew |-> <<>>, english |-> <<>>]
NoData == [keys |-> {}, hebrew |-> <<>>, english |-> <<>>, error |-> ""]
FileKinds == {"hebrew_clean", "english_clean", "parallel_clean"}
NoFile == [exists |-> FALSE, title |-> "", lines |-> <<>>]

NoResponse == [kind |-> "none", type |-> "none", keys |-> {}, he |-> <<>>, text |-> <<>>]

PipeIdle ==
    /\ download_type = "none"
    /\ version = "none"
    /\ chapter = 0
    /\ chapter_count = 0
    /\ all_text = EmptyText
    /\ metadata = NoResponse
    /\ fetched = <<>>
    /\ response = NoResponse
    /\ data = NoData
    /\ log = <<>>
    /\ files = [k \in FileKinds |-> NoFile]
    /\ preview = <<>>
    /\ threads = <<>>

InitClean ==
    /\ pc = "clean_0"
    /\ cleaner \in {"hebrew", "english"}
    /\ text \in Strings
    /\ once = <<>>
    /\ twice = <<>>
    /\ PipeIdle

CleanCall ==
    /\ pc = "clean_0"
    /\ once' = Clean(cleaner, text)
    /\ pc' = "clean_1"
    /\ UNCHANGED <<cleaner, text, twice>>
    /\ UNCHANGED pipeVars
    /\ UNCHANGED threads

CleanAgain ==
    /\ pc = "clean_1"
    /\ twice' = Clean(cleaner, once)
    /\ pc' = "clean_2"
    /\ UNCHANGED <<cleaner, text, once>>
    /\ UNCHANGED pipeVars
    /\ UNCHANGED threads

NextClean == CleanCall \/ CleanAgain

SpecClean == InitClean /\ [][NextClean]_vars

----------------------------------------------------------------------------
(* HTTP: what the remote text API may answer *)

\* Raw verse values of the sample responses.
V1 == <<"<", "b", ">", "a", "<", "/", "b", ">">>            \* "<b>a</b>"
V2 == <<" ", "<", "i", ">", "<", "/", "i", ">", "\t">>      \* " <i></i>\t"
V3 == <<"b", " ", "<", "b", "r", ">", " ", "c", "\n">>      \* "b <br> c\n"

JsonArrays == {<<>>, <<V1>>, <<V2, V3>>, <<V1, JsonNull>>}

\* kind: what session.get / raise_for_status / response.json() do;
\* type: the JSON value's type when the body parses.
FailedResponses ==
    {[kind |-> k, type |-> "none", keys |-> {}, he |-> <<>>, text |-> <<>>] :
        k \in {"ConnectionError", "HTTPError", "JSONDecodeError"}}

NonObjectResponses ==
    {[kind |-> "ok", type |-> t, keys |-> {}, he |-> <<>>, text |-> <<>>] :
        t \in {"array", "number"}}

ObjectResponses(arrays) ==
    {[kind |-> "ok", type |-> "object", keys |-> ks,
      he |-> IF "he" \in ks THEN h ELSE <<>>,
      text |-> IF "text" \in ks THEN t ELSE <<>>] :
        ks \in SUBSET {"he", "text"}, h \in arrays, t \in arrays}

ChapterResponses == FailedResponses \cup NonObjectResponses \cup ObjectResponses(JsonArrays)

\* The metadata answer: only the length of data['text'] is read.
MetaArrays == {[i \in 1..n |-> <<>>] : n \in 0..MaxChapters}
MetaResponses ==
    FailedResponses \cup NonObjectResponses
    \cup {[kind |-> "ok", type |-> "object", keys |-> ks, he |-> <<>>, text |-> <<>>] :
            ks \in {{}, {"he"}}}
    \cup {[kind |-> "ok", type |-> "object", keys |-> {"text"}, he |-> <<>>, text |-> t] :
            t \in MetaArrays}

\* The exception, if any, raised by the three lines get / raise_for_status / json
\* and by the first "'key' in data" test ("" when none is raised).
RequestError(resp) ==
    IF resp.kind # "ok" THEN resp.kind
    ELSE IF resp.type = "number" THEN "TypeError"
    ELSE ""

Get(path, ref, params) == [ev |-> "GET", path |-> path, chapter |-> ref, params |-> params]
Event(e) == [ev |-> e, path |-> "", chapter |-> 0, params |-> {}]

----------------------------------------------------------------------------
(* CleanBibleDownloader *)

get_chapter_count_request == Get("\texts", 0, {})

\* Mutant: an undetermined count defaults to one chapter.
get_chapter_count_default_one(resp) ==
    IF RequestError(resp) # "" THEN 1
    ELSE IF "text" \in resp.keys THEN Len(resp.text)
    ELSE 1

get_chapter_count(resp) ==
    IF RequestError(resp) # "" THEN 0
    ELSE IF "text" \in resp.keys THEN Len(resp.text)
    ELSE 0

download_chapter_request(ch, v) ==
    Get("texts", ch, IF v = "he-en" THEN {<<"version", "he">>} ELSE {})

\* Mutant: "if clean: out.append(clean)", lines that clean to '' are dropped.
RECURSIVE clean_lines_drops_empty(_, _)
clean_lines_drops_empty(fn, lines) ==
    IF lines = <<>> THEN [raised |-> FALSE, out |-> <<>>]
    ELSE IF ~IsStr(Head(lines)) THEN [raised |-> TRUE, out |-> <<>>]
    ELSE LET rest == clean_lines_drops_empty(fn, Tail(lines)) IN
         [raised |-> rest.raised,
          out |-> (IF Clean(fn, Head(lines)) = <<>> THEN <<>>
                   ELSE <<Clean(fn, Head(lines))>>) \o rest.out]

\* "for line in lines: out.append(clean(line))": the cleaned lines, and whether
\* re.sub raised on a value that is not a string.
RECURSIVE clean_lines(_, _)
clean_lines(fn, lines) ==
    IF lines = <<>> THEN [raised |-> FALSE, out |-> <<>>]
    ELSE IF ~IsStr(Head(lines)) THEN [raised |-> TRUE, out |-> <<>>]
    ELSE LET rest == clean_lines(fn, Tail(lines)) IN
         [raised |-> rest.raised, out |-> <<Clean(fn, Head(lines))>> \o rest.out]

Success(h, e) == [keys |-> {"hebrew", "english"}, hebrew |-> h, english |-> e, error |-> ""]
Failure(msg) == [keys |-> {"hebrew", "english", "error"}, hebrew |-> <<>>, english |-> <<>>,
                 error |-> msg]

\* Mutant: the except branch returns the lines cleaned before the exception.
download_chapter_keeps_partial(v, resp) ==
    LET hebrew_lines == IF "he" \in resp.keys THEN clean_lines("hebrew", resp.he)
                        ELSE [raised |-> FALSE, out |-> <<>>]
        english_lines == IF "text" \in resp.keys THEN clean_lines("english", resp.text)
                         ELSE [raised |-> FALSE, out |-> <<>>]
        partial(h, e) == [keys |-> {"hebrew", "english", "error"}, hebrew |-> h, english |-> e,
                          error |-> "TypeError"]
    IN
    IF RequestError(resp) # "" THEN Failure(RequestError(resp))
    ELSE IF v = "he" THEN
        IF hebrew_lines.raised THEN partial(hebrew_lines.out, <<>>)
        ELSE Success(hebrew_lines.out, <<>>)
    ELSE IF v = "en" THEN
        IF english_lines.raised THEN partial(<<>>, english_lines.out)
        ELSE Success(<<>>, english_lines.out)
    ELSE
        IF hebrew_lines.raised THEN partial(hebrew_lines.out, <<>>)
        ELSE IF english_lines.raised THEN partial(hebrew_lines.out, english_lines.out)
        ELSE Success(hebrew_lines.out, english_lines.out)

\* Mutant: the version is ignored and both collections are always populated.
download_chapter_ignores_version(v, resp) ==
    LET hebrew_lines == IF "he" \in resp.keys THEN clean_lines("hebrew", resp.he)
                        ELSE [raised |-> FALSE, out |-> <<>>]
        english_lines == IF "text" \in resp.keys THEN clean_lines("english", resp.text)
                         ELSE [raised |-> FALSE, out |-> <<>>]
    IN
    IF RequestError(resp) # "" THEN Failure(RequestError(resp))
    ELSE IF hebrew_lines.raised \/ english_lines.raised THEN Failure("TypeError")
    ELSE Success(hebrew_lines.out, english_lines.out)

download_chapter(v, resp) ==
    LET hebrew_lines == IF "he" \in resp.keys THEN clean_lines("hebrew", resp.he)
                        ELSE [raised |-> FALSE, out |-> <<>>]
        english_lines == IF "text" \in resp.keys THEN clean_lines("english", resp.text)
                         ELSE [raised |-> FALSE, out |-> <<>>]
    IN
    IF RequestError(resp) # "" THEN Failure(RequestError(resp))
    ELSE IF v = "he" THEN
        IF hebrew_lines.raised THEN Failure("TypeError")
        ELSE Success(hebrew_lines.out, <<>>)
    ELSE IF v = "en" THEN
        IF english_lines.raised THEN Failure("TypeError")
        ELSE Success(<<>>, english_lines.out)
    ELSE
        IF hebrew_lines.raised \/ english_lines.raised THEN Failure("TypeError")
        ELSE Success(hebrew_lines.out, english_lines.out)

\* Mutant: a failed chapter discards what was accumulated.
extend_reset_on_error(acc, chapter_data) ==
    IF "error" \notin chapter_data.keys
    THEN [hebrew |-> acc.hebrew \o chapter_data.hebrew,
          english |-> acc.english \o chapter_data.english]
    ELSE [hebrew |-> <<>>, english |-> <<>>]

\* Mutant: a failed chapter leaves an empty line in both accumulators.
extend_marks_failure(acc, chapter_data) ==
    IF "error" \notin chapter_data.keys
    THEN [hebrew |-> acc.hebrew \o chapter_data.hebrew,
          english |-> acc.english \o chapter_data.english]
    ELSE [hebrew |-> Append(acc.hebrew, <<>>), english |-> Append(acc.english, <<>>)]

\* The body of download_book's loop after download_chapter returned.
extend(acc, chapter_data) ==
    IF "error" \notin chapter_data.keys
    THEN [hebrew |-> acc.hebrew \o chapter_data.hebrew,
          english |-> acc.english \o chapter_data.english]
    ELSE acc

\* download_book's loop run over the dicts ds that download_chapter returned.
RECURSIVE accumulate(_, _)
accumulate(acc, ds) ==
    IF ds = <<>> THEN acc ELSE accumulate(extend(acc, Head(ds)), Tail(ds))

\* What download_book returns for a book of Len(ds) >= 1 chapters.
download_book_result(ds) ==
    LET all == accumulate(EmptyText, ds) IN Success(all.hebrew, all.english)

BookFailure == [keys |-> {"error"}, hebrew |-> <<>>, english |-> <<>>,
                error |-> "Could not determine chapter count"]

----------------------------------------------------------------------------
(* BibleDownloaderGUI.save_clean_text *)

Max(a, b) == IF a >= b THEN a ELSE b

hebrew_file(d) == [exists |-> TRUE, title |-> "Clean Hebrew Text", lines |-> d.hebrew]

english_file(d) == [exists |-> TRUE, title |-> "Clean English Text", lines |-> d.english]

Min(a, b) == IF a <= b THEN a ELSE b

\* Mutant: the blocks stop at the shorter collection, as zip() would.
combined_file_shortest(d) ==
    LET max_lines == Min(Len(d.hebrew), Len(d.english)) IN
    [exists |-> TRUE, title |-> "Parallel Hebrew-English Text",
     lines |-> [v \in 1..max_lines |->
                  [verse |-> v, hebrew_line |-> d.hebrew[v], english_line |-> d.english[v]]]]

\* One "--- Verse i+1 ---" block per i in range(max_lines); the model's index
\* v is i+1.
combined_file(d) ==
    LET max_lines == Max(Len(d.hebrew), Len(d.english)) IN
    [exists |-> TRUE, title |-> "Parallel Hebrew-English Text",
     lines |-> [v \in 1..max_lines |->
                  [verse |-> v,
                   hebrew_line |-> IF v <= Len(d.hebrew) THEN d.hebrew[v] ELSE <<>>,
                   english_line |-> IF v <= Len(d.english) THEN d.english[v] ELSE <<>>]]]

\* "if cond: with open(file, 'w') as f: ...": open raises OSError when the
\* file system refuses `kind` (fail = kind); a write that succeeds replaces the file.
write_file(st, cond, kind, content, fail) ==
    IF st.raised \/ ~cond THEN st
    ELSE IF fail = kind THEN [st EXCEPT !.raised = TRUE]
    ELSE [st EXCEPT !.files[kind] = content, !.written = Append(@, kind)]

\* Mutant: the parallel file is reported when either collection is non-empty.
saved_lines_parallel_if_either(d) ==
    (IF d.hebrew # <<>> THEN <<<<"file", "hebrew_clean">>>> ELSE <<>>)
    \o (IF d.english # <<>> THEN <<<<"file", "english_clean">>>> ELSE <<>>)
    \o (IF d.hebrew # <<>> \/ d.english # <<>> THEN <<<<"file", "parallel_clean">>>> ELSE <<>>)

\* The three "Saved files" lines, in the order they are inserted.
saved_lines(d) ==
    (IF d.hebrew # <<>> THEN <<<<"file", "hebrew_clean">>>> ELSE <<>>)
    \o (IF d.english # <<>> THEN <<<<"file", "english_clean">>>> ELSE <<>>)
    \o (IF d.hebrew # <<>> /\ d.english # <<>> THEN <<<<"file", "parallel_clean">>>> ELSE <<>>)

\* Mutant: the parallel file is written when either collection is non-empty.
save_clean_text_parallel_if_either(d, fs, fail) ==
    LET s0 == [files |-> fs, written |-> <<>>, raised |-> FALSE]
        s1 == write_file(s0, d.hebrew # <<>>, "hebrew_clean", hebrew_file(d), fail)
        s2 == write_file(s1, d.english # <<>>, "english_clean", english_file(d), fail)
        s3 == write_file(s2, d.hebrew # <<>> \/ d.english # <<>>, "parallel_clean",
                         combined_file(d), fail)
    IN [files |-> s3.files, written |-> s3.written, raised |-> s3.raised,
        shown |-> IF s3.raised THEN <<>> ELSE <<<<"Saved files", "">>>> \o saved_lines(d)]

\* files: the file system after the call; written: the files opened for
\* writing, in order; raised: an OSError left the call; shown: what the call
\* inserted into preview_text.
save_clean_text(d, fs, fail) ==
    LET s0 == [files |-> fs, written |-> <<>>, raised |-> FALSE]
        s1 == write_file(s0, d.hebrew # <<>>, "hebrew_clean", hebrew_file(d), fail)
        s2 == write_file(s1, d.english # <<>>, "english_clean", english_file(d), fail)
        s3 == write_file(s2, d.hebrew # <<>> /\ d.english # <<>>, "parallel_clean",
                         combined_file(d), fail)
    IN [files |-> s3.files, written |-> s3.written, raised |-> s3.raised,
        shown |-> IF s3.raised THEN <<>> ELSE <<<<"Saved files", "">>>> \o saved_lines(d)]

----------------------------------------------------------------------------
(* BibleDownloaderGUI.download_worker, with the downloads it drives.  An     *)
(* action runs the code from one blocking call (an HTTP request, a sleep)   *)
(* to the next.                                                             *)

Versions == {"he", "en", "he-en"}

Init ==
    /\ pc = "idle"
    /\ cleaner = "none"
    /\ text = <<>>
    /\ once = <<>>
    /\ twice = <<>>
    /\ PipeIdle

\* download_worker up to download_book's metadata request.
StartBook ==
    /\ pc = "idle"
    /\ \E v \in Versions :
        /\ version' = v
        /\ download_type' = "book"
        /\ log' = <<Event("mkdir"), get_chapter_count_request>>
        /\ preview' = <<<<"Starting download", "book">>>>
        /\ pc' = "meta_wait"
    /\ UNCHANGED <<chapter, chapter_count, all_text, metadata, fetched, response, data, files>>
    /\ UNCHANGED cleanVars
    /\ UNCHANGED threads

\* download_worker raises before any request: book_var names no known book
\* (ValueError from list.index), mkdir fails (OSError), or chapter_var is no
\* integer (ValueError from int, after mkdir).  The except branch reports it.
StartFails ==
    /\ pc = "idle"
    /\ \E v \in Versions, dt \in {"book", "chapter"}, at \in {"book_var", "mkdir", "chapter_var"} :
        /\ at = "chapter_var" => dt = "chapter"
        /\ version' = v
        /\ download_type' = dt
        /\ log' = IF at = "chapter_var" THEN <<Event("mkdir")>> ELSE <<>>
        /\ preview' = <<<<"Download error", IF at = "mkdir" THEN "OSError" ELSE "ValueError">>>>
        /\ pc' = "failed"
    /\ UNCHANGED <<chapter, chapter_count, all_text, metadata, fetched, response, data, files>>
    /\ UNCHANGED cleanVars
    /\ UNCHANGED threads

\* Mutant: the worker leaves the output directory to save_clean_text, which
\* does not create it.
StartChapter_without_mkdir ==
    /\ pc = "idle"
    /\ \E v \in Versions, ch \in 1..MaxChapters :
        /\ version' = v
        /\ chapter' = ch
        /\ download_type' = "chapter"
        /\ log' = <<download_chapter_request(ch, v)>>
        /\ preview' = <<<<"Starting download", "chapter">>>>
        /\ pc' = "chapter_wait"
    /\ UNCHANGED <<chapter_count, all_text, metadata, fetched, response, data, files>>
    /\ UNCHANGED cleanVars
    /\ UNCHANGED threads

\* download_worker up to download_chapter's request.
StartChapter ==
    /\ pc = "idle"
    /\ \E v \in Versions, ch \in 1..MaxChapters :
        /\ version' = v
        /\ chapter' = ch
        /\ download_type' = "chapter"
        /\ log' = <<Event("mkdir"), download_chapter_request(ch, v)>>
        /\ preview' = <<<<"Starting download", "chapter">>>>
        /\ pc' = "chapter_wait"
    /\ UNCHANGED <<chapter_count, all_text, metadata, fetched, response, data, files>>
    /\ UNCHANGED cleanVars
    /\ UNCHANGED threads

\* The metadata request resolves: get_chapter_count returns, download_book
\* returns a failure or enters its loop and requests chapter 1.
MetaResolve ==
    /\ pc = "meta_wait"
    /\ \E resp \in MetaResponses :
        LET n == get_chapter_count(resp) IN
        /\ metadata' = resp
        /\ chapter_count' = n
        /\ IF n = 0
           THEN /\ data' = BookFailure
                /\ pc' = "returned"
                /\ UNCHANGED <<chapter, log>>
           ELSE /\ chapter' = 1
                /\ log' = Append(log, download_chapter_request(1, version))
                /\ pc' = "chapter_wait"
                /\ UNCHANGED data
    /\ UNCHANGED <<download_type, version, all_text, fetched, response, files, preview>>
    /\ UNCHANGED cleanVars
    /\ UNCHANGED threads

\* The request of a single-chapter download resolves: download_chapter returns
\* to the worker.
ChapterResolve ==
    /\ pc = "chapter_wait"
    /\ download_type = "chapter"
    /\ \E resp \in ChapterResponses :
        LET chapter_data == download_chapter(version, resp) IN
        /\ response' = resp
        /\ fetched' = Append(fetched, chapter_data)
        /\ data' = chapter_data
    /\ pc' = "returned"
    /\ UNCHANGED <<download_type, version, chapter, chapter_count, all_text, metadata, log,
                   files, preview>>
    /\ UNCHANGED cleanVars
    /\ UNCHANGED threads

\* Mutant: the else branch of the loop body ends in `continue`, so a failed
\* chapter is followed at once by the next request or by the return.
BookChapterResolve_no_delay_on_error ==
    /\ pc = "chapter_wait"
    /\ download_type = "book"
    /\ \E resp \in ChapterResponses :
        LET chapter_data == download_chapter(version, resp) IN
        /\ fetched' = Append(fetched, chapter_data)
        /\ all_text' = extend(all_text, chapter_data)
        /\ IF "error" \notin chapter_data.keys
           THEN /\ response' = resp
                /\ pc' = "sleep"
                /\ UNCHANGED <<chapter, data, log>>
           ELSE IF chapter < chapter_count
           THEN /\ response' = NoResponse
                /\ chapter' = chapter + 1
                /\ log' = Append(log, download_chapter_request(chapter + 1, version))
                /\ pc' = "chapter_wait"
                /\ UNCHANGED data
           ELSE /\ response' = NoResponse
                /\ data' = Success(all_text.hebrew, all_text.english)
                /\ pc' = "returned"
                /\ UNCHANGED <<chapter, log>>
    /\ UNCHANGED <<download_type, version, chapter_count, metadata, files, preview>>
    /\ UNCHANGED cleanVars
    /\ UNCHANGED threads

\* Mutant: download_chapter sends its request a second time when the first
\* attempt of the book's first failing chapter failed.
BookChapterResolve_retries ==
    /\ pc = "chapter_wait"
    /\ download_type = "book"
    /\ \E resp \in ChapterResponses :
        LET chapter_data == download_chapter(version, resp)
            chapter_requests == SelectSeq(log, LAMBDA e : e.ev = "GET" /\ e.chapter >= 1)
        IN
        IF "error" \in chapter_data.keys /\ Len(chapter_requests) = chapter
        THEN /\ log' = Append(log, download_chapter_request(chapter, version))
             /\ pc' = "chapter_wait"
             /\ UNCHANGED <<response, fetched, all_text>>
        ELSE /\ response' = resp
             /\ fetched' = Append(fetched, chapter_data)
             /\ all_text' = extend(all_text, chapter_data)
             /\ pc' = "sleep"
             /\ UNCHANGED log
    /\ UNCHANGED <<download_type, version, chapter, chapter_count, metadata, data, files,
                   preview>>
    /\ UNCHANGED cleanVars
    /\ UNCHANGED threads

\* Mutant: download_chapter has no except branch, so a failure leaves
\* download_book as an exception and the call never returns a value.
BookChapterResolve_raises ==
    /\ pc = "chapter_wait"
    /\ download_type = "book"
    /\ \E resp \in ChapterResponses :
        LET chapter_data == download_chapter(version, resp) IN
        /\ response' = resp
        /\ IF "error" \in chapter_data.keys
           THEN /\ pc' = "raised"
                /\ UNCHANGED <<fetched, all_text>>
           ELSE /\ fetched' = Append(fetched, chapter_data)
                /\ all_text' = extend(all_text, chapter_data)
                /\ pc' = "sleep"
    /\ UNCHANGED <<download_type, version, chapter, chapter_count, metadata, data, log, files,
                   preview>>
    /\ UNCHANGED cleanVars
    /\ UNCHANGED threads

\* A chapter request of the book loop resolves: download_chapter returns, the
\* loop body extends the accumulators and goes to sleep.
BookChapterResolve ==
    /\ pc = "chapter_wait"
    /\ download_type = "book"
    /\ \E resp \in ChapterResponses :
        LET chapter_data == download_chapter(version, resp) IN
        /\ response' = resp
        /\ fetched' = Append(fetched, chapter_data)
        /\ all_text' = extend(all_text, chapter_data)
    /\ pc' = "sleep"
    /\ UNCHANGED <<download_type, version, chapter, chapter_count, metadata, data, log, files,
                   preview>>
    /\ UNCHANGED cleanVars
    /\ UNCHANGED threads

\* time.sleep(0.5) returns: the loop requests the next chapter, or ends and
\* download_book returns all_text.
SleepDone ==
    /\ pc = "sleep"
    /\ IF chapter < chapter_count
       THEN /\ chapter' = chapter + 1
            /\ log' = log \o <<Event("sleep"), download_chapter_request(chapter + 1, version)>>
            /\ pc' = "chapter_wait"
            /\ UNCHANGED data
       ELSE /\ log' = Append(log, Event("sleep"))
            /\ data' = Success(all_text.hebrew, all_text.english)
            /\ pc' = "returned"
            /\ UNCHANGED chapter
    /\ response' = NoResponse
    /\ UNCHANGED <<download_type, version, chapter_count, all_text, metadata, fetched, files,
                   preview>>
    /\ UNCHANGED cleanVars
    /\ UNCHANGED threads

\* Mutant: the worker saves and reports completion without testing the
\* result for 'error'.
WorkerSave_ignores_error ==
    /\ pc = "returned"
    /\ \E fail \in FileKinds \cup {"none"} :
        LET r == save_clean_text(data, files, fail) IN
        /\ files' = r.files
        /\ log' = log \o [i \in 1..Len(r.written) |->
                            [ev |-> "write", path |-> r.written[i], chapter |-> 0, params |-> {}]]
        /\ preview' = preview \o r.shown \o
                        (IF r.raised THEN <<<<"Download error", "OSError">>>>
                         ELSE <<<<"Download completed", "">>>>)
        /\ pc' = IF r.raised THEN "failed" ELSE "saved"
    /\ UNCHANGED <<download_type, version, chapter, chapter_count, all_text, metadata, fetched,
                   response, data>>
    /\ UNCHANGED cleanVars
    /\ UNCHANGED threads

\* The worker after the download returned a dict without 'error'.
WorkerSave ==
    /\ pc = "returned"
    /\ "error" \notin data.keys
    /\ \E fail \in FileKinds \cup {"none"} :
        LET r == save_clean_text(data, files, fail) IN
        /\ files' = r.files
        /\ log' = log \o [i \in 1..Len(r.written) |->
                            [ev |-> "write", path |-> r.written[i], chapter |-> 0, params |-> {}]]
        /\ preview' = preview \o r.shown \o
                        (IF r.raised THEN <<<<"Download error", "OSError">>>>
                         ELSE <<<<"Download completed", "">>>>)
        /\ pc' = IF r.raised THEN "failed" ELSE "saved"
    /\ UNCHANGED <<download_type, version, chapter, chapter_count, all_text, metadata, fetched,
                   response, data>>
    /\ UNCHANGED cleanVars
    /\ UNCHANGED threads

\* The worker after the download returned a dict with 'error'.
WorkerError ==
    /\ pc = "returned"
    /\ "error" \in data.keys
    /\ preview' = Append(preview, <<"Error", data.error>>)
    /\ pc' = "error_shown"
    /\ UNCHANGED <<download_type, version, chapter, chapter_count, all_text, metadata, fetched,
                   response, data, log, files>>
    /\ UNCHANGED cleanVars
    /\ UNCHANGED threads

Next ==
    \/ StartBook
    \/ StartChapter
    \/ StartFails
    \/ MetaResolve
    \/ ChapterResolve
    \/ BookChapterResolve
    \/ SleepDone
    \/ WorkerSave
    \/ WorkerError

Spec == Init /\ [][Next]_vars

\* The worker when every HTTP request eventually resolves and every
\* time.sleep eventually returns.
Fairness ==
    /\ WF_vars(MetaResolve)
    /\ WF_vars(ChapterResolve)
    /\ WF_vars(BookChapterResolve)
    /\ WF_vars(SleepDone)

SpecFair == Spec /\ Fairness

\* The cleaner calls and the download worker in one specification.
InitAll == Init \/ InitClean
NextAll == Next \/ NextClean
SpecAll == InitAll /\ [][NextAll]_vars

----------------------------------------------------------------------------
(* The GUI: every click on Download runs start_download, which spawns a    *)
(* daemon thread running download_worker.  All threads use the one         *)
(* downloader (and its requests.Session) and the one preview widget of the *)
(* window.  A thread is a record: its position, its download, and the log  *)
(* of what it has done so far.  Book, output directory and version stay at *)
(* the window's initial selection.                                         *)

MaxWorkers == 2

\* version_var's initial value.
version_var == "he-en"

Resolved(k) == [ev |-> "resolved", path |-> "", chapter |-> k, params |-> {}]

\* What get_chapter_count and download_chapter can return to a thread.
ChapterCounts == {get_chapter_count(r) : r \in MetaResponses}
ChapterOutcomes ==
    {download_chapter(version_var, r).keys # {"hebrew", "english"} : r \in ChapterResponses}

InitGUI ==
    /\ pc = "mainloop"
    /\ cleaner = "none"
    /\ text = <<>>
    /\ once = <<>>
    /\ twice = <<>>
    /\ PipeIdle

\* A click on Download: a new thread is created and started, whatever the
\* earlier threads are doing.
start_download ==
    /\ pc = "mainloop"
    /\ Len(threads) < MaxWorkers
    /\ \E dt \in {"book", "chapter"}, ch \in 1..MaxChapters :
        threads' = Append(threads,
                          [pc |-> "started", download_type |-> dt,
                           chapter |-> IF dt = "chapter" THEN ch ELSE 0,
                           chapter_count |-> 0, log |-> <<>>, shown |-> ""])
    /\ UNCHANGED <<pc, cleanVars, pipeVars>>

\* Mutant: download_book takes the chapter count an earlier thread fetched.
ThreadBegin_reuses_count(t) ==
    LET th == threads[t]
        known == {threads[u].chapter_count : u \in 1..(t - 1)} \ {0}
    IN
    /\ th.pc = "started"
    /\ threads' = [threads EXCEPT ![t] =
         IF th.download_type = "book" /\ known # {}
         THEN [th EXCEPT !.pc = "chapter_wait",
                         !.chapter_count = CHOOSE n \in known : TRUE,
                         !.chapter = 1,
                         !.log = <<Event("mkdir"), download_chapter_request(1, version_var)>>,
                         !.shown = "Starting download"]
         ELSE IF th.download_type = "book"
         THEN [th EXCEPT !.pc = "meta_wait",
                         !.log = <<Event("mkdir"), get_chapter_count_request>>,
                         !.shown = "Starting download"]
         ELSE [th EXCEPT !.pc = "chapter_wait",
                         !.log = <<Event("mkdir"),
                                   download_chapter_request(th.chapter, version_var)>>,
                         !.shown = "Starting download"]]
    /\ UNCHANGED <<pc, cleanVars, pipeVars>>

\* download_worker up to the first request of the download.
ThreadBegin(t) ==
    LET th == threads[t] IN
    /\ th.pc = "started"
    /\ threads' = [threads EXCEPT ![t] =
         IF th.download_type = "book"
         THEN [th EXCEPT !.pc = "meta_wait",
                         !.log = <<Event("mkdir"), get_chapter_count_request>>,
                         !.shown = "Starting download"]
         ELSE [th EXCEPT !.pc = "chapter_wait",
                         !.log = <<Event("mkdir"),
                                   download_chapter_request(th.chapter, version_var)>>,
                         !.shown = "Starting download"]]
    /\ UNCHANGED <<pc, cleanVars, pipeVars>>

\* get_chapter_count returns to download_book.
ThreadMeta(t) ==
    LET th == threads[t] IN
    /\ th.pc = "meta_wait"
    /\ \E n \in ChapterCounts :
        threads' = [threads EXCEPT ![t] =
          IF n = 0
          THEN [th EXCEPT !.pc = "done",
                          !.log = Append(th.log, Resolved(0)),
                          !.shown = "Error"]
          ELSE [th EXCEPT !.pc = "chapter_wait",
                          !.chapter_count = n,
                          !.chapter = 1,
                          !.log = th.log \o <<Resolved(0),
                                              download_chapter_request(1, version_var)>>]]
    /\ UNCHANGED <<pc, cleanVars, pipeVars>>

\* download_chapter returns: to download_book's loop, or to the worker.
ThreadChapter(t) ==
    LET th == threads[t] IN
    /\ th.pc = "chapter_wait"
    /\ \E failed \in ChapterOutcomes :
        threads' = [threads EXCEPT ![t] =
          IF th.download_type = "book"
          THEN [th EXCEPT !.pc = "sleep",
                          !.log = Append(th.log, Resolved(th.chapter))]
          ELSE IF failed
          THEN [th EXCEPT !.pc = "done",
                          !.log = Append(th.log, Resolved(th.chapter)),
                          !.shown = "Error"]
          ELSE [th EXCEPT !.pc = "saving",
                          !.log = Append(th.log, Resolved(th.chapter))]]
    /\ UNCHANGED <<pc, cleanVars, pipeVars>>

\* time.sleep(0.5) returns: the next request, or download_book returns and
\* the worker calls save_clean_text.
ThreadSleep(t) ==
    LET th == threads[t] IN
    /\ th.pc = "sleep"
    /\ threads' = [threads EXCEPT ![t] =
         IF th.chapter < th.chapter_count
         THEN [th EXCEPT !.pc = "chapter_wait",
                         !.chapter = th.chapter + 1,
                         !.log = th.log \o <<Event("sleep"),
                                             download_chapter_request(th.chapter + 1,
                                                                      version_var)>>]
         ELSE [th EXCEPT !.pc = "saving",
                         !.log = Append(th.log, Event("sleep"))]]
    /\ UNCHANGED <<pc, cleanVars, pipeVars>>

\* save_clean_text returns and the worker reports.
ThreadSave(t) ==
    LET th == threads[t] IN
    /\ th.pc = "saving"
    /\ threads' = [threads EXCEPT ![t] = [th EXCEPT !.pc = "done",
                                                    !.shown = "Download completed"]]
    /\ UNCHANGED <<pc, cleanVars, pipeVars>>

\* The thread is inside download_book / download_chapter, using
\* self.downloader.session.
Downloading(th) == th.pc \in {"meta_wait", "chapter_wait", "sleep"}

\* The thread is between its first and its last insert into self.preview_text.
Reporting(th) == th.pc \in {"meta_wait", "chapter_wait", "sleep", "saving"}

\* The filename argument of the thread's save_clean_text call; book and
\* output directory are the same for all threads.
output_file(th) == IF th.download_type = "book" THEN <<"complete", 0>>
                   ELSE <<"chapter", th.chapter>>

NextGUI ==
    \/ start_download
    \/ \E t \in 1..Len(threads) : ThreadBegin(t)
    \/ \E t \in 1..Len(threads) : ThreadMeta(t)
    \/ \E t \in 1..Len(threads) : ThreadChapter(t)
    \/ \E t \in 1..Len(threads) : ThreadSleep(t)
    \/ \E t \in 1..Len(threads) : ThreadSave(t)

SpecGUI == InitGUI /\ [][NextGUI]_vars

----------------------------------------------------------------------------
(* Properties *)

\* The chapter requests of the log, in the order they were issued.
ChapterRequests(l) == SelectSeq(l, LAMBDA e : e.ev = "GET" /\ e.chapter >= 1)

\* The concatenation, in order, of field f of the dicts of ds without 'error'.
RECURSIVE ConcatOk(_, _)
ConcatOk(ds, f) ==
    IF ds = <<>> THEN <<>>
    ELSE (IF "error" \notin Head(ds).keys THEN Head(ds)[f] ELSE <<>>) \o ConcatOk(Tail(ds), f)

BookReturned ==
    /\ download_type = "book"
    /\ pc \in {"returned", "saved", "failed", "error_shown"}

\* C1: download_book over a book of n >= 1 chapters requests chapters 1..n, one
\* request each, whatever fails, and returns the concatenation in chapter order
\* of the hebrew and english collections of the chapters that succeeded; while
\* the loop runs the accumulators hold that concatenation for the chapters
\* attempted so far.
C1_BookPartialFailureTolerant ==
    /\ (download_type = "book" /\ chapter_count >= 1) =>
        /\ all_text.hebrew = ConcatOk(fetched, "hebrew")
        /\ all_text.english = ConcatOk(fetched, "english")
    /\ (BookReturned /\ chapter_count >= 1) =>
        /\ Len(fetched) = chapter_count
        /\ Len(ChapterRequests(log)) = chapter_count
        /\ \A k \in 1..chapter_count : ChapterRequests(log)[k].chapter = k
        /\ data.keys = {"hebrew", "english"}
        /\ data.hebrew = ConcatOk(fetched, "hebrew")
        /\ data.english = ConcatOk(fetched, "english")

\* A book of 3 chapters whose chapter 2 failed returns chapter 1's verses
\* followed by chapter 3's.
C1_Witness ==
    /\ BookReturned
    /\ chapter_count = 3
    /\ "error" \notin fetched[1].keys /\ fetched[1].hebrew # <<>>
    /\ "error" \in fetched[2].keys
    /\ "error" \notin fetched[3].keys /\ fetched[3].hebrew # <<>>
    /\ fetched[1].hebrew # fetched[3].hebrew
    /\ data.hebrew = fetched[1].hebrew \o fetched[3].hebrew

\* The metadata answer gives no chapter count: the request failed, the body is
\* no JSON object, it has no 'text' key, or 'text' is empty.
MetaUnavailable(resp) ==
    \/ resp.kind # "ok"
    \/ resp.type # "object"
    \/ "text" \notin resp.keys
    \/ Len(resp.text) = 0

\* C2: when the chapter count is 0 or cannot be determined, download_book
\* returns a dict with an 'error' message and no chapter request is issued.
C2_MetadataUnavailableFails ==
    (download_type = "book" /\ metadata # NoResponse /\ MetaUnavailable(metadata)) =>
        /\ pc \in {"returned", "error_shown"}
        /\ "error" \in data.keys
        /\ data.error # ""
        /\ ChapterRequests(log) = <<>>
        /\ fetched = <<>>

\* The metadata answer is a JSON object without 'text' and the book download
\* has returned its failure.
C2_Witness ==
    /\ download_type = "book"
    /\ pc = "returned"
    /\ metadata.kind = "ok" /\ metadata.type = "object" /\ "text" \notin metadata.keys
    /\ data = BookFailure
    /\ Len(log) = 2

\* The last download_chapter call has returned and its HTTP outcome is at hand.
ChapterFetched == response # NoResponse /\ fetched # <<>>

\* What that call returned.
LastFetched == fetched[Len(fetched)]

\* Something fails inside a chapter fetch in version v on outcome resp: the
\* transport, the status, the JSON parse, the key test on a body that is no
\* container, or the cleaning of a value of a requested array that is no string.
ChapterFails(v, resp) ==
    \/ resp.kind # "ok"
    \/ resp.type = "number"
    \/ v # "en" /\ "he" \in resp.keys /\ \E i \in DOMAIN resp.he : ~IsStr(resp.he[i])
    \/ v # "he" /\ "text" \in resp.keys /\ \E i \in DOMAIN resp.text : ~IsStr(resp.text[i])

\* C3: every failure inside a chapter fetch comes back from download_chapter as
\* a dict with an 'error' message and empty hebrew and english collections; it
\* reaches the caller as that dict and never as an exception (the book loop
\* goes on to its sleep, the worker shows "Error", not "Download error").
C3_ChapterFailureIsReturned ==
    (ChapterFetched /\ ChapterFails(version, response)) =>
        /\ LastFetched.keys = {"hebrew", "english", "error"}
        /\ LastFetched.error # ""
        /\ LastFetched.hebrew = <<>>
        /\ LastFetched.english = <<>>
        /\ download_type = "book" => pc = "sleep"
        /\ download_type = "chapter" =>
            /\ pc \in {"returned", "error_shown"}
            /\ data = LastFetched
            /\ pc = "error_shown" => preview[Len(preview)] = <<"Error", LastFetched.error>>

\* Cleaning the second verse raised after the first was cleaned, and the dict
\* returned holds an error and no verse.
C3_Witness ==
    /\ ChapterFetched
    /\ version = "he"
    /\ response.kind = "ok" /\ "he" \in response.keys
    /\ response.he = <<V1, JsonNull>>
    /\ "error" \in LastFetched.keys
    /\ LastFetched.hebrew = <<>>

\* The element-wise image of array a under cleaner fn.
Cleaned(fn, a) == [i \in 1..Len(a) |-> Clean(fn, a[i])]

\* C4: a chapter fetch that does not fail returns, in version 'he', the cleaned
\* 'he' array as hebrew and an empty english; in version 'en', the cleaned
\* 'text' array as english and an empty hebrew; in version 'he-en', both; a
\* key that is missing gives an empty collection and no error.
C4_ModeSemantics ==
    (ChapterFetched /\ version \in Versions /\ ~ChapterFails(version, response)) =>
        LET h == IF "he" \in response.keys THEN Cleaned("hebrew", response.he) ELSE <<>>
            e == IF "text" \in response.keys THEN Cleaned("english", response.text) ELSE <<>>
        IN
        /\ LastFetched.keys = {"hebrew", "english"}
        /\ version = "he" => LastFetched.hebrew = h /\ LastFetched.english = <<>>
        /\ version = "en" => LastFetched.hebrew = <<>> /\ LastFetched.english = e
        /\ version = "he-en" => LastFetched.hebrew = h /\ LastFetched.english = e

\* Version 'he' on a body that has both arrays, non-empty: hebrew is
\* populated and english is empty.
C4_Witness ==
    /\ ChapterFetched
    /\ version = "he"
    /\ response.keys = {"he", "text"}
    /\ response.he = <<V2, V3>> /\ response.text = <<V1>>
    /\ Len(LastFetched.hebrew) = 2
    /\ LastFetched.english = <<>>
    /\ "error" \notin LastFetched.keys

----------------------------------------------------------------------------
(* Properties of the cleaners *)

\* C5: the cleaners are idempotent: cleaning a cleaned string changes nothing.
C5_CleanIdempotent ==
    pc = "clean_2" => twice = once

\* "<<a>>" cleans to ">" and cleaning ">" again gives ">".
C5_Witness ==
    /\ pc = "clean_2"
    /\ text = <<"<", "<", "a", ">", ">">>
    /\ once = <<">">>
    /\ twice = <<">">>

\* Every '<' of s opens a tag that a later '>' closes, tags do not nest, and no
\* '>' stands outside a tag.
RECURSIVE WellFormedFrom(_, _)
WellFormedFrom(s, inTag) ==
    IF s = <<>> THEN ~inTag
    ELSE IF Head(s) = "<" THEN ~inTag /\ WellFormedFrom(Tail(s), TRUE)
    ELSE IF Head(s) = ">" THEN inTag /\ WellFormedFrom(Tail(s), FALSE)
    ELSE WellFormedFrom(Tail(s), inTag)

WellFormed(s) == WellFormedFrom(s, FALSE)

\* The characters of s that stand outside its tags.
RECURSIVE OutsideTags(_, _)
OutsideTags(s, inTag) ==
    IF s = <<>> THEN <<>>
    ELSE IF Head(s) = "<" THEN OutsideTags(Tail(s), TRUE)
    ELSE IF Head(s) = ">" THEN OutsideTags(Tail(s), FALSE)
    ELSE IF inTag THEN OutsideTags(Tail(s), inTag)
    ELSE <<Head(s)>> \o OutsideTags(Tail(s), inTag)

NoSpace(s) == SelectSeq(s, LAMBDA c : ~IsSpace(c))

\* C6: on a string of well-formed tag markup the cleaner removes every tag: the
\* output holds no '<' and no '>', and its non-whitespace characters are those
\* that stood outside the tags.
C6_WellFormedTagsRemoved ==
    (pc \in {"clean_1", "clean_2"} /\ WellFormed(text)) =>
        /\ \A i \in DOMAIN once : once[i] \notin {"<", ">"}
        /\ NoSpace(once) = NoSpace(OutsideTags(text, FALSE))

\* "<>a<>" holds two tags and cleans to "a".
C6_Witness ==
    /\ pc = "clean_1"
    /\ text = <<"<", ">", "a", "<", ">">>
    /\ WellFormed(text)
    /\ once = <<"a">>

\* s has no whitespace at either end, no two adjacent whitespace characters,
\* and no whitespace character other than the space.
Normalised(s) ==
    /\ s # <<>> => ~IsSpace(s[1]) /\ ~IsSpace(s[Len(s)])
    /\ \A i \in 1..(Len(s) - 1) : ~(IsSpace(s[i]) /\ IsSpace(s[i + 1]))
    /\ \A i \in DOMAIN s : IsSpace(s[i]) => s[i] = " "

\* The whitespace runs of s that have a non-whitespace character on both sides.
InteriorRuns(s) ==
    Cardinality({i \in 2..Len(s) :
                    /\ IsSpace(s[i]) /\ ~IsSpace(s[i - 1])
                    /\ \E j \in (i + 1)..Len(s) : ~IsSpace(s[j])})

AllNormalised(lines) == \A i \in DOMAIN lines : Normalised(lines[i])

\* C7: the output of a cleaner has no leading or trailing whitespace and no two
\* adjacent whitespace characters; every whitespace run left between two words
\* once the tags are deleted becomes exactly one space; the empty string cleans
\* to the empty string; and every entry of every collection download_chapter
\* and download_book build or return is normalised in this way.
C7_WhitespaceNormalised ==
    /\ pc \in {"clean_1", "clean_2"} =>
        LET t == re_sub_tags(text) IN
        /\ Normalised(once)
        /\ NoSpace(once) = NoSpace(t)
        /\ Len(once) = Len(NoSpace(t)) + InteriorRuns(t)
        /\ text = <<>> => once = <<>>
    /\ AllNormalised(all_text.hebrew) /\ AllNormalised(all_text.english)
    /\ AllNormalised(data.hebrew) /\ AllNormalised(data.english)
    /\ \A k \in DOMAIN fetched :
        AllNormalised(fetched[k].hebrew) /\ AllNormalised(fetched[k].english)

\* A book download returned a verse in which deleting "<br>" between two
\* spaces left a run that became the one space of "b c", next to a verse that
\* cleaned to the empty string.
C7_Witness ==
    /\ BookReturned
    /\ \E i \in DOMAIN data.hebrew : data.hebrew[i] = <<"b", " ", "c">>
    /\ \E i \in DOMAIN data.hebrew : data.hebrew[i] = <<>>

----------------------------------------------------------------------------
(* Properties of save_clean_text.  The worker is at "saved" when the call   *)
(* returned and at "failed" when an open() inside it raised.                *)

\* C8: the parallel file holds max(len(hebrew), len(english)) verse blocks in
\* increasing order; block i (0-based) is numbered i+1 and carries hebrew[i] and
\* english[i], each replaced by the empty string past the end of its
\* collection.  (The model's index v is i+1.)
C8_ParallelBlocks ==
    files["parallel_clean"].exists =>
        LET blocks == files["parallel_clean"].lines
            nh == Len(data.hebrew)
            ne == Len(data.english)
        IN
        /\ Len(blocks) = IF nh >= ne THEN nh ELSE ne
        /\ \A v \in DOMAIN blocks :
            /\ blocks[v].verse = v
            /\ blocks[v].hebrew_line = IF v <= nh THEN data.hebrew[v] ELSE <<>>
            /\ blocks[v].english_line = IF v <= ne THEN data.english[v] ELSE <<>>

\* Two hebrew verses and one english verse give two blocks, the second with
\* an empty English line.
C8_Witness ==
    /\ pc = "saved"
    /\ Len(data.hebrew) = 2
    /\ Len(data.english) = 1
    /\ files["parallel_clean"].exists
    /\ Len(files["parallel_clean"].lines) = 2
    /\ files["parallel_clean"].lines[2].hebrew_line = data.hebrew[2]
    /\ files["parallel_clean"].lines[2].english_line = <<>>

\* The files opened for writing, and the files named under "Saved files".
Written == {log[i].path : i \in {j \in DOMAIN log : log[j].ev = "write"}}
Reported == {preview[i][2] : i \in {j \in DOMAIN preview : preview[j][1] = "file"}}

\* C9: a save_clean_text call that returns has written the Hebrew-only file
\* iff hebrew is non-empty, the English-only file iff english is non-empty and
\* the parallel file iff both are; a call that an open() aborted has written
\* no file beyond those; nothing else writes a file.
C9_FileSelection ==
    /\ pc = "saved" =>
        /\ "hebrew_clean" \in Written <=> data.hebrew # <<>>
        /\ "english_clean" \in Written <=> data.english # <<>>
        /\ "parallel_clean" \in Written <=> (data.hebrew # <<>> /\ data.english # <<>>)
    /\ pc = "failed" =>
        /\ "hebrew_clean" \in Written => data.hebrew # <<>>
        /\ "english_clean" \in Written => data.english # <<>>
        /\ "parallel_clean" \notin Written
    /\ pc \notin {"saved", "failed"} => Written = {}
    /\ \A k \in FileKinds : files[k].exists <=> k \in Written

\* A non-empty hebrew and an empty english collection: only the Hebrew-only
\* file is produced.
C9_Witness ==
    /\ pc = "saved"
    /\ data.hebrew # <<>>
    /\ data.english = <<>>
    /\ Written = {"hebrew_clean"}
    /\ files["hebrew_clean"].lines = data.hebrew

\* C10: after a save_clean_text call that returns, the files named under
\* "Saved files" are exactly the files the call wrote, each named once; no
\* file is ever named that was not written.
C10_ReportedEqualsWritten ==
    /\ pc = "saved" =>
        /\ Reported = Written
        /\ Len(SelectSeq(preview, LAMBDA m : m[1] = "file")) = Cardinality(Written)
    /\ Reported \subseteq Written

\* Both collections non-empty: three files written and three reported.
C10_Witness ==
    /\ pc = "saved"
    /\ Written = FileKinds
    /\ Reported = FileKinds

\* The requests of a log, in the order they were issued.
Requests(l) == SelectSeq(l, LAMBDA e : e.ev = "GET")

\* The positions of l that hold a chapter request.
ChapterRequestAt(l) == {j \in 1..Len(l) : l[j].ev = "GET" /\ l[j].chapter >= 1}

\* The order of one download_book call, read off the log of its thread.
BookOrder(th) ==
    LET reqs == Requests(th.log)
        chs == ChapterRequests(th.log)
    IN
    /\ Len(reqs) >= 1
    /\ reqs[1] = get_chapter_count_request
    /\ Len(reqs) = Len(chs) + 1
    /\ \A i \in 1..Len(chs) : chs[i].chapter = i
    /\ Len(chs) <= th.chapter_count
    /\ \A j \in ChapterRequestAt(th.log) :
         IF th.log[j].chapter = 1
         THEN th.log[j - 1] = Resolved(0)
         ELSE /\ th.log[j - 1] = Event("sleep")
              /\ th.log[j - 2] = Resolved(th.log[j].chapter - 1)
    /\ (th.pc \in {"saving", "done"} /\ th.chapter_count >= 1)
         => Len(chs) = th.chapter_count

\* C11: every download_book call, whichever calls came before it, issues
\* its own single metadata request first, then the chapter requests 1, 2,
\* ... in ascending order, each exactly once, and the request for chapter
\* k+1 only after the request for chapter k has resolved and the delay has
\* elapsed.
C11_BookRequestOrder ==
    \A t \in 1..Len(threads) :
        (threads[t].download_type = "book" /\ threads[t].pc # "started")
            => BookOrder(threads[t])

\* Two book downloads of the same window, both finished after all
\* MaxChapters chapters, each with its own metadata request.
C11_Witness ==
    /\ Len(threads) = 2
    /\ \A t \in 1..2 :
        /\ threads[t].download_type = "book"
        /\ threads[t].pc = "done"
        /\ threads[t].chapter_count = MaxChapters
        /\ Len(Requests(threads[t].log)) = MaxChapters + 1

\* The number of time.sleep steps of l strictly between positions i and j.
DelaysBetween(l, i, j) == Cardinality({k \in (i + 1)..(j - 1) : l[k] = Event("sleep")})

\* C12: in a book download, between any two consecutive chapter requests
\* there is exactly one delay step, whether the earlier chapter succeeded or
\* failed.
C12_OneDelayBetweenRequests ==
    download_type = "book" =>
        \A i, j \in ChapterRequestAt(log) :
            (i < j /\ ChapterRequestAt(log) \cap ((i + 1)..(j - 1)) = {})
                => DelaysBetween(log, i, j) = 1

\* Chapter 1 failed, chapter 2 succeeded, and the third request is out: one
\* delay after the failure and one after the success.
C12_Witness ==
    /\ download_type = "book"
    /\ pc = "chapter_wait"
    /\ Len(fetched) = 2
    /\ "error" \in fetched[1].keys
    /\ "error" \notin fetched[2].keys
    /\ Len(ChapterRequests(log)) = 3
    /\ Len(SelectSeq(log, LAMBDA e : e = Event("sleep"))) = 2

\* The worker has called download_book or download_chapter.
DownloadCalled == preview # <<>> /\ preview[1][1] = "Starting download"

\* The number of metadata requests of a log.
MetadataRequests(l) == Cardinality({j \in 1..Len(l) : l[j] = get_chapter_count_request})

\* C13: nothing is retried.  Every download_chapter call, returned or still
\* waiting, has issued exactly one HTTP request whatever its outcome, the
\* get_chapter_count call of a book download has issued exactly one, and no
\* request is issued a second time within a call.
C13_NoRetries ==
    /\ Len(ChapterRequests(log)) = Len(fetched) + (IF pc = "chapter_wait" THEN 1 ELSE 0)
    /\ MetadataRequests(log) = (IF download_type = "book" /\ DownloadCalled THEN 1 ELSE 0)
    /\ \A i, j \in 1..Len(Requests(log)) :
         i # j => Requests(log)[i] # Requests(log)[j]

\* A book download has returned after a transport failure, a status failure
\* and a parse failure: three chapter requests for three failed calls.
C13_Witness ==
    /\ BookReturned
    /\ Len(fetched) = 3
    /\ \A k \in 1..3 : "error" \in fetched[k].keys
    /\ {fetched[k].error : k \in 1..3} = {"ConnectionError", "HTTPError", "JSONDecodeError"}
    /\ Len(ChapterRequests(log)) = 3
    /\ MetadataRequests(log) = 1

\* The run that differs from the one with chapter results ds only in that every
\* failed chapter returned two empty collections instead.
FailuresAsEmpty(ds) ==
    [k \in 1..Len(ds) |-> IF "error" \in ds[k].keys THEN Success(<<>>, <<>>) ELSE ds[k]]

\* C14: the value download_book returns for a book of n >= 1 chapters never
\* carries 'error', and it is the value download_book returns in the run where
\* each failed chapter returned empty collections instead: the caller cannot
\* tell a failed chapter from an empty one.
C14_FailuresIndistinguishable ==
    (BookReturned /\ chapter_count >= 1) =>
        /\ "error" \notin data.keys
        /\ data = download_book_result(fetched)
        /\ data = download_book_result(FailuresAsEmpty(fetched))

\* Both chapters of a two-chapter book failed: download_book returned two
\* empty collections without 'error' and the worker reported completion.
C14_Witness ==
    /\ BookReturned
    /\ pc = "saved"
    /\ chapter_count = 2
    /\ Len(fetched) = 2
    /\ "error" \in fetched[1].keys /\ "error" \in fetched[2].keys
    /\ data = Success(<<>>, <<>>)
    /\ FailuresAsEmpty(fetched) # fetched

\* C15: every request goes to the 'texts' path segment: the metadata request
\* to texts/{book} without query parameters, the chapter request to
\* texts/{book}.{chapter}, carrying version=he exactly when the version is
\* 'he-en' and no query parameter otherwise.
C15_RequestAddressing ==
    \A j \in 1..Len(log) :
        log[j].ev = "GET" =>
            /\ log[j].path = "texts"
            /\ log[j].chapter \in 0..chapter_count \cup {chapter}
            /\ log[j].params = IF log[j].chapter >= 1 /\ version = "he-en"
                               THEN {<<"version", "he">>}
                               ELSE {}

\* The positions of the log at which an output file was written.
WriteAt(l) == {j \in 1..Len(l) : l[j].ev = "write"}

\* C16: whenever save_clean_text has written an output file, the worker has
\* created the output directory earlier in the same execution.
C16_DirectoryBeforeWrite ==
    \A j \in WriteAt(log) : \E i \in 1..(j - 1) : log[i] = Event("mkdir")

\* A single-chapter download in 'he-en' has written its three files.
C16_Witness ==
    /\ download_type = "chapter"
    /\ pc = "saved"
    /\ Cardinality(WriteAt(log)) = 3
    /\ log[1] = Event("mkdir")

\* C17: no two worker threads of the window are at the same time inside the
\* download on the one downloader and HTTP session, between inserts into the
\* one preview widget, or inside save_clean_text on the same output files.
C17_NoSharedMutableState ==
    \A t, u \in 1..Len(threads) :
        t # u =>
            /\ ~(Downloading(threads[t]) /\ Downloading(threads[u]))
            /\ ~(Reporting(threads[t]) /\ Reporting(threads[u]))
            /\ ~(/\ threads[t].pc = "saving"
                 /\ threads[u].pc = "saving"
                 /\ output_file(threads[t]) = output_file(threads[u]))

\* download_book has been called and has not returned yet.
BookRunning == download_type = "book" /\ pc \in {"meta_wait", "chapter_wait", "sleep"}

\* C18: when every HTTP request eventually resolves, every download_book call
\* eventually returns, and for a book of n >= 1 chapters it has returned only
\* when all n chapters were attempted, failed ones included.
C18_BookTerminates ==
    /\ BookRunning ~> BookReturned
    /\ [](BookReturned /\ chapter_count >= 1 =>
            /\ Len(fetched) = chapter_count
            /\ Len(ChapterRequests(log)) = chapter_count)

\* download_book has returned from a book of MaxChapters chapters whose first
\* and last chapter failed.
C18_Witness ==
    /\ BookReturned
    /\ pc = "returned"
    /\ chapter_count = MaxChapters
    /\ Len(fetched) = MaxChapters
    /\ "error" \in fetched[1].keys
    /\ "error" \in fetched[MaxChapters].keys

\* C19: in the dict of a chapter fetch that succeeded, each collection
\* populated from a response array has the array's length and holds at every
\* position the cleaned value of the array's entry at that position; an entry
\* that cleans to the empty string stays in its place.
C19_ElementwiseImage ==
    (ChapterFetched /\ "error" \notin LastFetched.keys) =>
        /\ (version # "en" /\ "he" \in response.keys) =>
            /\ Len(LastFetched.hebrew) = Len(response.he)
            /\ \A i \in 1..Len(response.he) :
                 LastFetched.hebrew[i] = clean_hebrew_text(response.he[i])
        /\ (version # "he" /\ "text" \in response.keys) =>
            /\ Len(LastFetched.english) = Len(response.text)
            /\ \A i \in 1..Len(response.text) :
                 LastFetched.english[i] = clean_english_text(response.text[i])

\* " <i></i>\t" cleans to the empty string and is kept as the first of two
\* english entries.
C19_Witness ==
    /\ ChapterFetched
    /\ version = "en"
    /\ response.text = <<V2, V3>>
    /\ "error" \notin LastFetched.keys
    /\ Len(LastFetched.english) = 2
    /\ LastFetched.english[1] = <<>>
    /\ LastFetched.english[2] # <<>>

\* The message the worker inserted last into the preview.
LastShown == preview[Len(preview)]

\* The worker has shown "Download completed".
ShownCompleted == \E i \in 1..Len(preview) : preview[i][1] = "Download completed"

\* C20: on the book path and on the chapter path the worker writes files and
\* shows "Download completed" only for a result without 'error'; for a result
\* with 'error' no output file is written or changed and the worker shows the
\* error message; every exception raised in the worker ends in the except
\* branch, which shows it as a download error, so that every worker run ends
\* with exactly one of the three reports.
C20_WorkerReports ==
    /\ (ShownCompleted \/ WriteAt(log) # {}) => "error" \notin data.keys /\ pc \in {"saved", "failed"}
    /\ ShownCompleted => pc = "saved" /\ LastShown = <<"Download completed", "">>
    /\ "error" \in data.keys =>
        /\ files = [k \in FileKinds |-> NoFile]
        /\ pc \in {"returned", "error_shown"}
        /\ pc = "error_shown" => LastShown = <<"Error", data.error>>
    /\ pc = "failed" => LastShown[1] = "Download error"
    /\ ~ENABLED Next => pc \in {"saved", "failed", "error_shown"}

\* A single-chapter download whose request failed with an HTTP status error:
\* the worker showed the error and wrote nothing.
C20_Witness ==
    /\ download_type = "chapter"
    /\ pc = "error_shown"
    /\ data = Failure("HTTPError")
    /\ LastShown = <<"Error", "HTTPError">>
    /\ WriteAt(log) = {}

====
